---- MODULE Spec2Model ----
(***************************************************************************)
(* Client-side resilience layer of car-auction-analyzer.                   *)
(*                                                                         *)
(*  - ApiClient (mobile/CarAuctionAnalyzer/src/config/api.ts): the axios   *)
(*    request/response interceptors with token refresh on 401.             *)
(*  - Background sync of pending uploads (docs/sw.js, 'sync' listener).    *)
(*  - Cache strategy router (docs/sw.js, install/activate/fetch).          *)
(*  - Photo upload guard (docs/upload-fix.js, integrateWithApp).           *)
(*                                                                         *)
(* JavaScript runs the handlers on one thread: the code between two        *)
(* awaits is one atomic action.  Every await (NetInfo, AsyncStorage, the   *)
(* network) is a suspension point at which other handlers interleave.      *)
(*                                                                         *)
(* AsyncStorage executes its operations on a serial queue in the order in  *)
(* which they were called, so an operation takes effect when it is called  *)
(* and its result is delivered to the awaiting handler in a later step.    *)
(***************************************************************************)
EXTENDS Integers, Sequences, FiniteSets, TLC

(* ---------------------------- bounds ---------------------------------- *)
NumReq == 2          \* requests issued through the ApiClient
MaxSends == 3        \* network dispatches of one request
MaxSubs == 2         \* submissions put into 'pending-uploads'
MaxDrains == 2       \* 'sync' events fired
MaxLiveReq == 1      \* requests issued in the runs with storage failures
MaxVersion == 2      \* versions of the service worker that get installed
MaxFetch == 3        \* fetch events dispatched to the service worker
MaxMixed == 2        \* fetch events in the runs in which every URL is requested
MaxCalls == 3        \* calls of app.analyzePhotos

Reqs == 1..NumReq
LiveReqs == 1..MaxLiveReq
TokLimit == 2 * NumReq * MaxSends + 2
Tokens == 0..TokLimit
Subs == 1..MaxSubs
Drains == 1..MaxDrains
Versions == 1..MaxVersion
Fetches == 1..MaxFetch
MixedFetches == 1..MaxMixed
Calls == 1..MaxCalls

(* ------------------------- program values ----------------------------- *)
NoToken == 0                  \* AsyncStorage.getItem returns null
StatusOk == "2xx"             \* a status axios resolves the request with
StatusUnauthorized == "401"   \* error.response.status === 401
StatusOtherError == "other"   \* any other status axios rejects with
NoResponse == "none"          \* error.response is undefined
Status500 == "500"            \* the status request() gives an error without one

VARIABLES
  \* ---- ApiClient ----
  pc,                  \* per request: where its interceptor chain is suspended
  retry,               \* originalRequest._retry
  auth,                \* config.headers.Authorization (token id, NoToken = unset)
  result,              \* how the promise returned by this.instance(config) settled
  sends,               \* number of times the request was dispatched to the network
  status,              \* error.response?.status seen last by the response interceptor
  local,               \* value an awaited AsyncStorage read / refresh call delivers
  isRefreshing,        \* ApiClient.isRefreshing
  refreshSubscribers,  \* ApiClient.refreshSubscribers (request ids of the callbacks)
  storage,             \* AsyncStorage: the three TOKEN_STORAGE keys
  nextTok,             \* next token pair the backend issues
  logins,              \* number of saveAuthData calls so far
  abandoned,           \* the caller no longer waits for the request's promise
  requestResult,       \* what request() returned to or threw at its caller
  \* ---- history (observers, never read by the program) ----
  resumed,             \* times a request's subscriber callback was invoked
  refreshCalls,        \* refresh calls issued, per access token of the 401'd request
  failedBy,            \* waiter -> request whose failed refresh dropped it (0 = none)
  refreshFailed,       \* a refresh failed and saveAuthData was not called since
  lastRefreshed,       \* token pair the last refresh call returned (NoToken: none,
                       \* or a refresh failed since)
  \* ---- background sync (docs/sw.js) ----
  store,               \* ids in the 'pending-uploads' object store
  nextId,              \* next id handed out by enqueue
  dpc,                 \* per sync event: state of its waitUntil promise
  fetchState,          \* per sync event and upload: state of its POST
  delivered,           \* per upload: number of POSTs the server answered with ok
  attempts,            \* per upload: the attempts field of its stored record
  \* ---- cache strategy router (docs/sw.js) ----
  swState,             \* per version of the worker: its lifecycle state
  keyList,             \* what caches.keys() delivered to the activate listener
  cacheKeys,           \* names of the existing caches, in order of creation
  caches,              \* the stored body of each <<cache name, URL>> that has an entry
  fpc,                 \* per fetch event: where its handler is suspended
  req,                 \* event.request: method and url
  fver,                \* version of the worker the event was dispatched to
  found,               \* what the handler's caches.match delivers
  fetched,             \* the handler called fetch(request)
  netres,              \* how fetch(request) settled
  answer,              \* what respondWith's promise settled with
  \* ---- history ----
  lastStored,          \* per URL: the fetch event whose status-200 response arrived last
  \* ---- photo upload (docs/upload-fix.js) ----
  isUploading,         \* app.isUploading
  upc,                 \* per call of app.analyzePhotos: where it is suspended
  posts,               \* per call: POSTs sent to /api/vehicles/analyze
  shown                \* per call: how its last showAnalysisResults call went

apiVars == <<pc, retry, auth, result, sends, status, local, isRefreshing,
             refreshSubscribers, storage, nextTok, logins, abandoned,
             requestResult, resumed, refreshCalls, failedBy, refreshFailed, lastRefreshed>>
syncVars == <<store, nextId, dpc, fetchState, delivered, attempts>>
cacheVars == <<swState, keyList, cacheKeys, caches, fpc, req, fver, found,
               fetched, netres, answer, lastStored>>
uploadVars == <<isUploading, upc, posts, shown>>
vars == <<apiVars, syncVars, cacheVars, uploadVars>>

Range(s) == {s[i] : i \in DOMAIN s}
Occurrences(s, x) == Cardinality({i \in DOMAIN s : s[i] = x})

(* ======================= AsyncStorage operations ====================== *)

\* saveAuthData: multiSet of the three keys
SaveAuthData(t) == [access |-> t, refresh |-> t, user |-> TRUE]

\* USER_DATA is left out of the multiRemove
ClearAuthData_TokensOnly ==
  [access |-> NoToken, refresh |-> NoToken, user |-> storage.user]

\* clearAuthData: multiRemove of the three keys
ClearAuthData == [access |-> NoToken, refresh |-> NoToken, user |-> FALSE]

\* the keys are removed when the promise of multiRemove resolves
StorageWhenClearReturns_Late == ClearAuthData

\* the storage when the promise of clearAuthData resolves: the removal took
\* effect when multiRemove was called, nothing changes now
StorageWhenClearReturns == storage

\* isAuthenticated: !!getItem(ACCESS_TOKEN)
isAuthenticated == storage.access # NoToken

(* ============================ ApiClient =============================== *)

\* the flag is not consulted
MayStartRefresh_Unchecked == TRUE

\* line 157: the test that decides between waiting and refreshing
MayStartRefresh == ~isRefreshing

\* the list is not emptied after the callbacks ran
SubscribersAfterNotify_Kept == refreshSubscribers

\* line 199: the waiter list after the callbacks were invoked
SubscribersAfterNotify == <<>>

\* the catch block leaves the list as it is
SubscribersAfterFailure_Kept == refreshSubscribers

\* line 206: the waiter list after a failed refresh
SubscribersAfterFailure == <<>>

\* the flag is left set
IsRefreshingAfterFailure_LeftSet == isRefreshing

\* line 207: the flag after the catch block reset it
IsRefreshingAfterFailure == FALSE

\* the request is not marked
RetryAfterRefreshStart_Unset == FALSE

\* line 169: originalRequest._retry once the request starts a refresh
RetryAfterRefreshStart == TRUE

\* the field is taken to be present on every error
ErrorHasStatus_Always(res) == TRUE

\* line 275: (error as ApiError).status is set on the ApiError objects thrown
\* at line 230, not on the Error objects thrown at lines 136, 209 and 215 nor
\* on a rejection of AsyncStorage
ErrorHasStatus(res) == res \in {"api_error", "api_error_401"}

\* status field of the value the promise of this.instance(config) settled with
SettledStatus(res) ==
  CASE res = "ok" -> StatusOk
    [] res = "api_error" -> StatusOtherError
    [] res = "api_error_401" -> StatusUnauthorized
    [] OTHER -> NoResponse

NotSettled == [settled |-> "pending", status |-> NoResponse]

\* request (lines 266-284): a response is returned with its status; an error
\* that has a status is thrown again, any other error is thrown as an object
\* of status 500
RequestSettles(res) ==
  IF res = "ok"
  THEN [settled |-> "returned", status |-> SettledStatus(res)]
  ELSE IF ErrorHasStatus(res)
       THEN [settled |-> "thrown", status |-> SettledStatus(res)]
       ELSE [settled |-> "thrown", status |-> Status500]

\* The promise of this.instance(config) settles and request() hands the
\* outcome to its caller.
Finish(r, res) ==
  /\ pc' = [pc EXCEPT ![r] = "done"]
  /\ result' = [result EXCEPT ![r] = res]
  /\ requestResult' = [requestResult EXCEPT ![r] = RequestSettles(res)]

\* this.instance(config): the request interceptor starts and awaits NetInfo.fetch()
Request(r) ==
  /\ pc[r] = "idle"
  /\ pc' = [pc EXCEPT ![r] = "netinfo"]
  /\ UNCHANGED <<retry, auth, result, sends, status, local, isRefreshing,
                 refreshSubscribers, storage, nextTok, logins,
                 resumed, refreshCalls, failedBy, refreshFailed, lastRefreshed>>
  /\ UNCHANGED <<abandoned, requestResult, syncVars, cacheVars, uploadVars>>

\* NetInfo.fetch() returned (lines 134-140).  Not connected: the interceptor
\* throws, the rejection reaches the response interceptor's error handler with
\* no response and no 401, which throws 'Network error' (lines 214-216).
\* Connected: AsyncStorage.getItem(ACCESS_TOKEN) is called.
RequestInterceptorNetInfo(r) ==
  /\ pc[r] = "netinfo"
  /\ \E isConnected \in BOOLEAN :
       IF isConnected
       THEN /\ pc' = [pc EXCEPT ![r] = "gettoken"]
            /\ local' = [local EXCEPT ![r] = storage.access]
            /\ UNCHANGED <<result, status, requestResult>>
       ELSE /\ Finish(r, "network_error")
            /\ status' = [status EXCEPT ![r] = NoResponse]
            /\ UNCHANGED local
  /\ UNCHANGED <<retry, auth, sends, isRefreshing, refreshSubscribers, storage,
                 nextTok, logins, resumed, refreshCalls, failedBy, refreshFailed, lastRefreshed>>
  /\ UNCHANGED <<abandoned, syncVars, cacheVars, uploadVars>>

\* getItem(ACCESS_TOKEN) returned (lines 140-144): attach the token if there is
\* one and hand the request to the network.
RequestInterceptorSend(r) ==
  /\ pc[r] = "gettoken"
  /\ sends[r] < MaxSends
  /\ auth' = [auth EXCEPT ![r] = IF local[r] # NoToken THEN local[r] ELSE @]
  /\ sends' = [sends EXCEPT ![r] = @ + 1]
  /\ pc' = [pc EXCEPT ![r] = "inflight"]
  /\ local' = [local EXCEPT ![r] = NoToken]
  /\ UNCHANGED <<retry, result, status, isRefreshing, refreshSubscribers,
                 storage, nextTok, logins, resumed, refreshCalls, failedBy,
                 refreshFailed, lastRefreshed>>
  /\ UNCHANGED <<abandoned, requestResult, syncVars, cacheVars, uploadVars>>

\* The network answered with a success status: (response) => response, line 151.
ResponseOk(r) ==
  /\ pc[r] = "inflight"
  /\ Finish(r, "ok")
  /\ status' = [status EXCEPT ![r] = StatusOk]
  /\ UNCHANGED <<retry, auth, sends, local, isRefreshing, refreshSubscribers,
                 storage, nextTok, logins, resumed, refreshCalls, failedBy,
                 refreshFailed, lastRefreshed>>
  /\ UNCHANGED <<abandoned, syncVars, cacheVars, uploadVars>>

\* Error handler, no 401 to refresh on (lines 213-230): no response at all is a
\* network error; any other status, and a 401 on a request marked _retry, is
\* thrown as an ApiError carrying that status.
ResponseError(r) ==
  /\ pc[r] = "inflight"
  /\ \E s \in {NoResponse, StatusOtherError, StatusUnauthorized} :
       /\ s = StatusUnauthorized => retry[r]
       /\ status' = [status EXCEPT ![r] = s]
       /\ Finish(r, CASE s = NoResponse -> "network_error"
                      [] s = StatusUnauthorized -> "api_error_401"
                      [] OTHER -> "api_error")
  /\ UNCHANGED <<retry, auth, sends, local, isRefreshing, refreshSubscribers,
                 storage, nextTok, logins, resumed, refreshCalls, failedBy,
                 refreshFailed, lastRefreshed>>
  /\ UNCHANGED <<abandoned, syncVars, cacheVars, uploadVars>>

\* Error handler, 401 and not _retry (lines 156-174).  While a refresh is in
\* flight the request registers a subscriber and its promise stays pending;
\* otherwise it marks itself _retry, sets isRefreshing and calls
\* AsyncStorage.getItem(REFRESH_TOKEN).
Response401(r) ==
  /\ pc[r] = "inflight"
  /\ ~retry[r]
  /\ status' = [status EXCEPT ![r] = StatusUnauthorized]
  /\ IF MayStartRefresh
     THEN /\ retry' = [retry EXCEPT ![r] = RetryAfterRefreshStart]
          /\ isRefreshing' = TRUE
          /\ local' = [local EXCEPT ![r] = storage.refresh]
          /\ pc' = [pc EXCEPT ![r] = "rt_get"]
          /\ UNCHANGED refreshSubscribers
     ELSE /\ refreshSubscribers' = Append(refreshSubscribers, r)
          /\ pc' = [pc EXCEPT ![r] = "waiting"]
          /\ UNCHANGED <<retry, isRefreshing, local>>
  /\ UNCHANGED <<auth, result, sends, storage, nextTok, logins, resumed,
                 refreshCalls, failedBy, refreshFailed, lastRefreshed>>
  /\ UNCHANGED <<abandoned, requestResult, syncVars, cacheVars, uploadVars>>

\* any value counts as a refresh token
HasRefreshToken_Unchecked(r) == TRUE

\* line 175: the test of the value getItem(REFRESH_TOKEN) delivered
HasRefreshToken(r) == local[r] # NoToken

\* getItem(REFRESH_TOKEN) returned (lines 174-184).  No refresh token:
\* clearAuthData is called and awaited inside the try block.  Otherwise the
\* refresh call axios.post(REFRESH_TOKEN) is issued.
RefreshTokenRead(r) ==
  /\ pc[r] = "rt_get"
  /\ IF ~HasRefreshToken(r)
     THEN /\ storage' = ClearAuthData
          /\ pc' = [pc EXCEPT ![r] = "rt_clear"]
          /\ UNCHANGED refreshCalls
     ELSE /\ pc' = [pc EXCEPT ![r] = "refreshing"]
          /\ refreshCalls' = [refreshCalls EXCEPT ![auth[r]] = @ + 1]
          /\ UNCHANGED storage
  /\ UNCHANGED <<retry, auth, result, sends, status, local, isRefreshing,
                 refreshSubscribers, nextTok, logins, resumed, failedBy,
                 refreshFailed, lastRefreshed>>
  /\ UNCHANGED <<abandoned, requestResult, syncVars, cacheVars, uploadVars>>

\* The catch block (lines 204-208): drop the subscribers, leave Refreshing and
\* call clearAuthData.  The promises of the dropped subscribers are not settled.
CatchRefreshError(r) ==
  /\ failedBy' = [q \in Reqs |->
                    IF q \in Range(refreshSubscribers) THEN r ELSE failedBy[q]]
  /\ refreshSubscribers' = SubscribersAfterFailure
  /\ isRefreshing' = IsRefreshingAfterFailure
  /\ storage' = ClearAuthData
  /\ refreshFailed' = TRUE
  /\ lastRefreshed' = NoToken
  /\ local' = [local EXCEPT ![r] = NoToken]
  /\ pc' = [pc EXCEPT ![r] = "fail_clear"]

\* clearAuthData of the no-refresh-token path returned: 'Authentication
\* required' is thrown inside the try block and caught (lines 177-178, 204).
NoRefreshToken(r) ==
  /\ pc[r] = "rt_clear"
  /\ CatchRefreshError(r)
  /\ UNCHANGED <<retry, auth, result, sends, status, nextTok, logins,
                 resumed, refreshCalls>>
  /\ UNCHANGED <<abandoned, requestResult, syncVars, cacheVars, uploadVars>>

\* The refresh call was rejected (lines 181, 204).
RefreshRejected(r) ==
  /\ pc[r] = "refreshing"
  /\ CatchRefreshError(r)
  /\ UNCHANGED <<retry, auth, result, sends, status, nextTok, logins,
                 resumed, refreshCalls>>
  /\ UNCHANGED <<abandoned, requestResult, syncVars, cacheVars, uploadVars>>

\* clearAuthData of the catch block returned: throw 'Authentication required'
\* (lines 208-209).
AuthenticationRequired(r) ==
  /\ pc[r] = "fail_clear"
  /\ storage' = StorageWhenClearReturns
  /\ Finish(r, "auth_required")
  /\ UNCHANGED <<retry, auth, sends, status, local, isRefreshing,
                 refreshSubscribers, nextTok, logins, resumed,
                 refreshCalls, failedBy, refreshFailed, lastRefreshed>>
  /\ UNCHANGED <<abandoned, syncVars, cacheVars, uploadVars>>

\* The refresh call returned a new pair (lines 181-189):
\* setItem(ACCESS_TOKEN, access_token) is called.
RefreshResolved(r) ==
  /\ pc[r] = "refreshing"
  /\ nextTok < TokLimit
  /\ local' = [local EXCEPT ![r] = nextTok]
  /\ nextTok' = nextTok + 1
  /\ storage' = [storage EXCEPT !.access = nextTok]
  /\ lastRefreshed' = nextTok
  /\ pc' = [pc EXCEPT ![r] = "save_access"]
  /\ UNCHANGED <<retry, auth, result, sends, status, isRefreshing,
                 refreshSubscribers, logins, resumed, refreshCalls, failedBy,
                 refreshFailed>>
  /\ UNCHANGED <<abandoned, requestResult, syncVars, cacheVars, uploadVars>>

\* setItem(ACCESS_TOKEN) returned: setItem(REFRESH_TOKEN, refresh_token) is
\* called (line 190).
SaveRefreshToken(r) ==
  /\ pc[r] = "save_access"
  /\ storage' = [storage EXCEPT !.refresh = local[r]]
  /\ pc' = [pc EXCEPT ![r] = "save_refresh"]
  /\ UNCHANGED <<retry, auth, result, sends, status, local, isRefreshing,
                 refreshSubscribers, nextTok, logins, resumed, refreshCalls,
                 failedBy, refreshFailed, lastRefreshed>>
  /\ UNCHANGED <<abandoned, requestResult, syncVars, cacheVars, uploadVars>>

\* setItem(REFRESH_TOKEN) returned (lines 192-203): set the new Authorization
\* header, invoke every subscriber callback (each sets the header of its request
\* and calls this.instance(originalRequest)), empty the list, leave Refreshing
\* and call this.instance(originalRequest) for the request that refreshed.
NotifySubscribers(r) ==
  /\ pc[r] = "save_refresh"
  /\ LET resent == Range(refreshSubscribers) \cup {r} IN
       /\ auth' = [q \in Reqs |-> IF q \in resent THEN local[r] ELSE auth[q]]
       /\ pc' = [q \in Reqs |-> IF q \in resent THEN "netinfo" ELSE pc[q]]
  /\ resumed' = [q \in Reqs |-> resumed[q] + Occurrences(refreshSubscribers, q)]
  /\ refreshSubscribers' = SubscribersAfterNotify
  /\ isRefreshing' = FALSE
  /\ local' = [local EXCEPT ![r] = NoToken]
  /\ UNCHANGED <<retry, result, sends, status, storage, nextTok, logins,
                 refreshCalls, failedBy, refreshFailed, lastRefreshed>>
  /\ UNCHANGED <<abandoned, requestResult, syncVars, cacheVars, uploadVars>>

\* saveAuthData (lines 245-251), called with the pair a login returned.  The
\* user logs in when no credentials are stored.
Login ==
  /\ ~isAuthenticated
  /\ nextTok < TokLimit
  /\ logins' = logins + 1
  /\ storage' = SaveAuthData(nextTok)
  /\ nextTok' = nextTok + 1
  /\ refreshFailed' = FALSE
  /\ UNCHANGED <<pc, retry, auth, result, sends, status, local, isRefreshing,
                 refreshSubscribers, resumed, refreshCalls, failedBy,
                 lastRefreshed>>
  /\ UNCHANGED <<abandoned, requestResult, syncVars, cacheVars, uploadVars>>

(* ------------- storage failures and caller abandonment ---------------- *)
(* An AsyncStorage operation may reject: it then has no effect on the      *)
(* storage and the awaiting handler resumes in the catch block.  These     *)
(* actions are part of SpecLive only.                                      *)

\* getItem(ACCESS_TOKEN) of the request interceptor rejected (line 140): the
\* interceptor throws, the request is not dispatched, and the error handler
\* finds no response (lines 214-216)
GetAccessTokenRejected(r) ==
  /\ pc[r] = "gettoken"
  /\ Finish(r, "network_error")
  /\ status' = [status EXCEPT ![r] = NoResponse]
  /\ local' = [local EXCEPT ![r] = NoToken]
  /\ UNCHANGED <<retry, auth, sends, isRefreshing, refreshSubscribers, storage,
                 nextTok, logins, resumed, refreshCalls, failedBy, refreshFailed, lastRefreshed>>
  /\ UNCHANGED <<abandoned, syncVars, cacheVars, uploadVars>>

\* the catch block entered while clearAuthData (line 208) is going to reject:
\* the subscribers are dropped and the flag reset before the call (206-207)
CatchRefreshErrorClearRejected(r) ==
  /\ failedBy' = [q \in Reqs |->
                    IF q \in Range(refreshSubscribers) THEN r ELSE failedBy[q]]
  /\ refreshSubscribers' = SubscribersAfterFailure
  /\ isRefreshing' = IsRefreshingAfterFailure
  /\ refreshFailed' = TRUE
  /\ lastRefreshed' = NoToken
  /\ local' = [local EXCEPT ![r] = NoToken]
  /\ pc' = [pc EXCEPT ![r] = "clear_err"]
  /\ UNCHANGED storage

\* getItem(REFRESH_TOKEN) rejected (lines 174, 204)
GetRefreshTokenRejected(r) ==
  /\ pc[r] = "rt_get"
  /\ \/ CatchRefreshError(r)
     \/ CatchRefreshErrorClearRejected(r)
  /\ UNCHANGED <<retry, auth, result, sends, status, nextTok, logins,
                 resumed, refreshCalls>>
  /\ UNCHANGED <<abandoned, requestResult, syncVars, cacheVars, uploadVars>>

\* getItem(REFRESH_TOKEN) returned null and the clearAuthData called inside
\* the try block (line 177) is going to reject
ClearInTryRejected(r) ==
  /\ pc[r] = "rt_get"
  /\ local[r] = NoToken
  /\ pc' = [pc EXCEPT ![r] = "storage_err"]
  /\ UNCHANGED <<retry, auth, result, sends, status, local, isRefreshing,
                 refreshSubscribers, storage, nextTok, logins, resumed,
                 refreshCalls, failedBy, refreshFailed, lastRefreshed>>
  /\ UNCHANGED <<abandoned, requestResult, syncVars, cacheVars, uploadVars>>

\* the refresh call returned a new pair and setItem(ACCESS_TOKEN) (line 189)
\* is going to reject
SaveAccessTokenRejected(r) ==
  /\ pc[r] = "refreshing"
  /\ nextTok < TokLimit
  /\ nextTok' = nextTok + 1
  /\ pc' = [pc EXCEPT ![r] = "save_err"]
  /\ UNCHANGED <<retry, auth, result, sends, status, local, isRefreshing,
                 refreshSubscribers, storage, logins, resumed, refreshCalls,
                 failedBy, refreshFailed, lastRefreshed>>
  /\ UNCHANGED <<abandoned, requestResult, syncVars, cacheVars, uploadVars>>

\* setItem(ACCESS_TOKEN) returned and setItem(REFRESH_TOKEN) (line 190) is
\* going to reject
SaveRefreshTokenRejected(r) ==
  /\ pc[r] = "save_access"
  /\ pc' = [pc EXCEPT ![r] = "save_err"]
  /\ UNCHANGED <<retry, auth, result, sends, status, local, isRefreshing,
                 refreshSubscribers, storage, nextTok, logins, resumed,
                 refreshCalls, failedBy, refreshFailed, lastRefreshed>>
  /\ UNCHANGED <<abandoned, requestResult, syncVars, cacheVars, uploadVars>>

\* the rejection of a storage operation of the try block is delivered: the
\* catch block runs (lines 204-208)
StorageErrorCaught(r) ==
  /\ pc[r] \in {"storage_err", "save_err"}
  /\ \/ CatchRefreshError(r)
     \/ CatchRefreshErrorClearRejected(r)
  /\ UNCHANGED <<retry, auth, result, sends, status, nextTok, logins,
                 resumed, refreshCalls>>
  /\ UNCHANGED <<abandoned, requestResult, syncVars, cacheVars, uploadVars>>

\* the refresh call was rejected, or the no-refresh-token clearAuthData
\* returned, and the clearAuthData of the catch block is going to reject
CatchClearRejected(r) ==
  /\ pc[r] \in {"refreshing", "rt_clear"}
  /\ CatchRefreshErrorClearRejected(r)
  /\ UNCHANGED <<retry, auth, result, sends, status, nextTok, logins,
                 resumed, refreshCalls>>
  /\ UNCHANGED <<abandoned, requestResult, syncVars, cacheVars, uploadVars>>

\* the rejection of clearAuthData in the catch block (line 208) leaves the
\* handler: the request fails with the storage error
StorageErrorThrown(r) ==
  /\ pc[r] = "clear_err"
  /\ Finish(r, "storage_error")
  /\ UNCHANGED <<retry, auth, sends, status, local, isRefreshing,
                 refreshSubscribers, storage, nextTok, logins, resumed,
                 refreshCalls, failedBy, refreshFailed, lastRefreshed>>
  /\ UNCHANGED <<abandoned, syncVars, cacheVars, uploadVars>>

\* The caller of request() stops waiting for a request that is suspended in
\* the refresh procedure or on the waiter list.  A promise cannot be cancelled:
\* nothing in lines 152-210 reads the caller's interest, the handler goes on.
Abandon(r) ==
  /\ pc[r] \in {"rt_get", "rt_clear", "refreshing", "save_access",
                "save_refresh", "storage_err", "save_err", "waiting"}
  /\ ~abandoned[r]
  /\ abandoned' = [abandoned EXCEPT ![r] = TRUE]
  /\ UNCHANGED <<pc, retry, auth, result, sends, status, local, isRefreshing,
                 refreshSubscribers, storage, nextTok, logins, resumed,
                 refreshCalls, failedBy, refreshFailed, lastRefreshed>>
  /\ UNCHANGED <<requestResult, syncVars, cacheVars, uploadVars>>

(* ===================== background sync (docs/sw.js) =================== *)
(* The handler chains .then on the IndexedDB calls; they are modelled as   *)
(* the promise-returning operations the handler is written against.        *)

\* A page stores a submission under a new id in 'pending-uploads' (the
\* service worker only reads the store); ids grow in enqueue order.
Enqueue ==
  /\ nextId <= MaxSubs
  /\ store' = store \cup {nextId}
  /\ nextId' = nextId + 1
  /\ attempts' = [attempts EXCEPT ![nextId] = 0]
  /\ UNCHANGED <<dpc, fetchState, delivered>>
  /\ UNCHANGED <<apiVars, cacheVars, uploadVars>>

\* The promise passed to event.waitUntil is still pending.
WaitUntilPending(d) == dpc[d] \in {"opening", "uploading"}

\* A 'sync' event is dispatched (lines 188-199).  The browser fires the event
\* of one tag again only after the promise given to waitUntil has settled.
\* Any tag but 'sync-photos' is ignored.
SyncEvent(d) ==
  /\ dpc[d] = "idle"
  /\ \A e \in Drains : ~WaitUntilPending(e)
  /\ \E tag \in {"sync-photos", "other"} :
       dpc' = [dpc EXCEPT ![d] = IF tag = "sync-photos" THEN "opening" ELSE "done"]
  /\ UNCHANGED <<store, nextId, fetchState, delivered, attempts>>
  /\ UNCHANGED <<apiVars, cacheVars, uploadVars>>

\* store.getAll() resolved (lines 200-220): pendingUploads.map starts one
\* fetch POST per pending upload, all in the same turn; Promise.all of an
\* empty list resolves at once.
SyncUploadAll(d) ==
  /\ dpc[d] = "opening"
  /\ fetchState' = [fetchState EXCEPT ![d] =
                      [u \in Subs |-> IF u \in store THEN "inflight" ELSE "none"]]
  /\ dpc' = [dpc EXCEPT ![d] = IF store = {} THEN "done" ELSE "uploading"]
  /\ UNCHANGED <<store, nextId, delivered, attempts>>
  /\ UNCHANGED <<apiVars, cacheVars, uploadVars>>

\* the upload is deleted whenever its fetch settled, response.ok not tested
StoreAfterResponse_AnyOutcome(u, outcome) == store \ {u}

\* The 'pending-uploads' store after the POST of upload u settled (lines
\* 210-217).  outcome "ok": response.ok, the callback evaluates
\* db.transaction(...), but db is the parameter of the earlier then-callback
\* (line 195) and is not bound here: a ReferenceError is thrown before
\* store.delete is reached.  "notok": the if is skipped.  "netfail": fetch
\* rejected and the callback does not run.
StoreAfterResponse(u, outcome) == store

\* Promise.all (line 220) settles: it rejects with the first rejected upload
\* promise and resolves when every upload promise has resolved; the catch
\* (line 222) turns a rejection into a resolved waitUntil promise.
PromiseAllSettles(d, u, outcome) ==
  \/ outcome \in {"ok", "netfail"}
  \/ \A v \in Subs \ {u} : fetchState[d][v] \in {"none", "notok"}

\* The POST of upload u started by sync event d settled.  The listener reads
\* the records (getAll) and never writes one back.
FetchSettled(d, u) ==
  /\ fetchState[d][u] = "inflight"
  /\ \E outcome \in {"ok", "notok", "netfail"} :
       /\ fetchState' = [fetchState EXCEPT ![d][u] = outcome]
       /\ delivered' = [delivered EXCEPT ![u] = IF outcome = "ok" THEN @ + 1 ELSE @]
       /\ store' = StoreAfterResponse(u, outcome)
       /\ dpc' = [dpc EXCEPT ![d] =
                    IF dpc[d] = "uploading" /\ PromiseAllSettles(d, u, outcome)
                    THEN "done" ELSE @]
  /\ UNCHANGED <<nextId, attempts>>
  /\ UNCHANGED <<apiVars, cacheVars, uploadVars>>

NextSync ==
  \/ Enqueue
  \/ \E d \in Drains : SyncEvent(d)
  \/ \E d \in Drains : SyncUploadAll(d)
  \/ \E d \in Drains, u \in Subs : FetchSettled(d, u)


(* ================== cache strategy router (docs/sw.js) ================ *)
(* The 'install', 'activate' and 'fetch' listeners.  A version of the      *)
(* worker is sw.js with its own CACHE_VERSION.  A Cache Storage lookup or  *)
(* caches.open takes effect when it is called and its result is delivered  *)
(* in a later step; cache.put commits after the response body has been     *)
(* read, so puts commit in any order.                                      *)
(*                                                                         *)
(* Platform rules the listeners run under: fetch events are dispatched to  *)
(* the active worker only once it is 'activated' (they are held back while *)
(* the promise given to activate's waitUntil is pending); a waiting worker *)
(* that called skipWaiting is activated when the worker it replaces has    *)
(* answered its in-progress fetch events, and the replaced worker is then  *)
(* terminated: what it has not run yet never runs.  A new version is       *)
(* installed after the previous one was activated.                         *)

\* `car-auction-${class}-${CACHE_VERSION}` (lines 11-15)
CacheName(class, v) == <<class, v>>
STATIC_CACHE(v) == CacheName("static", v)
DYNAMIC_CACHE(v) == CacheName("dynamic", v)
IMAGE_CACHE(v) == CacheName("images", v)
API_CACHE(v) == CacheName("api", v)
Namespaces == {"static", "dynamic", "images", "api"} \X Versions

\* two of the entries of the precache list (lines 18-33)
STATIC_ASSETS == {"/index.html", "/icons/icon-72x72.png"}

\* the URLs that are requested, and what the tests of lines 83-108 say of them
Urls == {"/index.html", "/icons/badge-72x72.png", "/vehicle/photo.png",
         "/api/vehicle", "/page", "https://cdn.example/lib.js"}
\* the requests the pages issue: every URL is read, one is also posted to
Requests ==
  {[method |-> "GET", url |-> u] : u \in Urls}
    \cup {[method |-> "POST", url |-> "/index.html"]}

\* url.origin === self.location.origin
SameOrigin(url) == url # "https://cdn.example/lib.js"
\* url.pathname.startsWith('/icons/')
StartsWithIcons(url) == url \in {"/icons/icon-72x72.png", "/icons/badge-72x72.png"}
\* request.url.match(/\.(jpg|jpeg|png|gif|svg|webp)$/i)
HasImageExtension(url) ==
  url \in {"/icons/icon-72x72.png", "/icons/badge-72x72.png", "/vehicle/photo.png"}
\* request.destination: an <img> loads "/vehicle/photo.png"
Destination(url) == IF url = "/vehicle/photo.png" THEN "image" ELSE ""
\* request.url.includes('/api/') || includes('/analyze') || includes('/vehicle')
IncludesApiPath(url) == url \in {"/api/vehicle", "/vehicle/photo.png"}

\* response bodies: fetch event f receives body f from the network; the
\* precache of version v stores body Pre(v)
NoBody == 0
Pre(v) == MaxFetch + v
Bodies == 0..(MaxFetch + MaxVersion)

NoNamespace == <<"none", 0>>
NoEntry == [ns |-> NoNamespace, body |-> NoBody]
Answer(kind, ns, body) == [kind |-> kind, ns |-> ns, body |-> body]
NoAnswer == Answer("none", NoNamespace, NoBody)
Pending == Answer("pending", NoNamespace, NoBody)

\* isImageRequest (lines 83-86)
isImageRequest(url) == Destination(url) = "image" \/ HasImageExtension(url)

\* isApiRequest (lines 89-93)
isApiRequest(url) == IncludesApiPath(url)

\* the method is not looked at
Bypasses_OriginOnly(method, url) == ~SameOrigin(url)

\* line 101: the listener returns without calling respondWith
Bypasses(method, url) == method # "GET" \/ ~SameOrigin(url)

\* the API test comes before the image test
Strategy_ApiBeforeImage(url) ==
  IF url \in STATIC_ASSETS \/ StartsWithIcons(url) THEN 1
  ELSE IF isApiRequest(url) THEN 3
  ELSE IF isImageRequest(url) THEN 2
  ELSE 4

\* lines 108, 128, 148, 164: the if / else-if chain that picks the strategy
Strategy(url) ==
  IF url \in STATIC_ASSETS \/ StartsWithIcons(url) THEN 1
  ELSE IF isImageRequest(url) THEN 2
  ELSE IF isApiRequest(url) THEN 3
  ELSE 4

\* the cache a strategy stores into (lines 120, 135, 153, 171)
StrategyCache(url, v) ==
  CASE Strategy(url) = 1 -> STATIC_CACHE(v)
    [] Strategy(url) = 2 -> IMAGE_CACHE(v)
    [] Strategy(url) = 3 -> API_CACHE(v)
    [] OTHER -> DYNAMIC_CACHE(v)

\* cache.match(url) on the cache called name
Stored(name, url) ==
  IF <<name, url>> \in DOMAIN caches THEN caches[<<name, url>>] ELSE NoBody

\* the cache called name with the entries new (a set of URLs) set to body
PutAll(name, new, body) ==
  [p \in DOMAIN caches \cup {<<name, u>> : u \in new} |->
     IF p[1] = name /\ p[2] \in new THEN body ELSE caches[p]]

\* caches.match(request): the caches are searched in the order of caches.keys()
RECURSIVE MatchFrom(_, _)
MatchFrom(keys, url) ==
  IF keys = <<>> THEN NoEntry
  ELSE IF Stored(Head(keys), url) # NoBody
       THEN [ns |-> Head(keys), body |-> Stored(Head(keys), url)]
       ELSE MatchFrom(Tail(keys), url)

\* the lookup finds nothing
CachesMatch_Miss(url) == NoEntry

CachesMatch(url) == MatchFrom(cacheKeys, url)

\* caches.open(name): the cache is created when it does not exist
CachesOpen(name) ==
  IF name \in Range(cacheKeys) THEN cacheKeys ELSE Append(cacheKeys, name)

\* only the dynamic, image and API caches of other versions are deleted
IsOldCache_StaticKept(key, v) ==
  key \notin {DYNAMIC_CACHE(v), IMAGE_CACHE(v), API_CACHE(v)} /\ key[1] # "static"

\* lines 66-71: the test that selects the caches activate deletes
IsOldCache(key, v) ==
  key \notin {STATIC_CACHE(v), DYNAMIC_CACHE(v), IMAGE_CACHE(v), API_CACHE(v)}

\* fetch events reach a worker that is still activating
Intercepts_WhileActivating(v) == swState[v] \in {"activating", "activated"}

\* fetch events are dispatched to the activated worker
Intercepts(v) == swState[v] = "activated"

\* the handler always waits for the network
CachedOrFetch_AlwaysFetch(f) == FALSE

\* lines 144, 180: `response || fetchPromise` is the cached response when
\* caches.match delivered one
CachedOrFetch(f) == found[f] # NoEntry

\* every response is stored
IsCacheable_AnyStatus(outcome) == outcome \in {"ok200", "status"}

\* lines 118, 134, 151, 170: networkResponse && networkResponse.status === 200
IsCacheable(outcome) == outcome = "ok200"

\* the value respondWith's promise settles with leaves the handler
Respond(f, a) == answer' = [answer EXCEPT ![f] = a]

\* 'install' listener (lines 36-47): skipWaiting, caches.open(STATIC_CACHE)
InstallEvent(v) ==
  /\ swState[v] = "parsed"
  /\ IF v = 1 THEN TRUE ELSE swState[v - 1] = "activated"
  /\ swState' = [swState EXCEPT ![v] = "installing"]
  /\ cacheKeys' = CachesOpen(STATIC_CACHE(v))
  /\ UNCHANGED <<keyList, caches, fpc, req, fver, found, fetched, netres,
                 answer, lastStored>>
  /\ UNCHANGED <<apiVars, syncVars, uploadVars>>

\* cache.addAll(STATIC_ASSETS) settled (lines 46-50): all entries are stored
\* or none is; a rejection is caught and logged, the installation succeeds
PrecacheSettled(v) ==
  /\ swState[v] = "installing"
  /\ \E ok \in BOOLEAN :
       caches' = IF ok THEN PutAll(STATIC_CACHE(v), STATIC_ASSETS, Pre(v))
                 ELSE caches
  /\ swState' = [swState EXCEPT ![v] = "installed"]
  /\ UNCHANGED <<keyList, cacheKeys, fpc, req, fver, found, fetched, netres,
                 answer, lastStored>>
  /\ UNCHANGED <<apiVars, syncVars, uploadVars>>

\* 'activate' listener (lines 55-62): clients.claim(), caches.keys().  The
\* worker replaced has answered its fetch events and is terminated.
ActivateEvent(v) ==
  /\ swState[v] = "installed"
  /\ \A f \in Fetches : answer[f].kind # "pending"
  /\ swState' = [w \in Versions |->
                   IF w = v THEN "activating"
                   ELSE IF swState[w] = "activated" THEN "redundant"
                   ELSE swState[w]]
  /\ fpc' = [f \in Fetches |->
               IF fpc[f] \in {"none", "done"} THEN fpc[f] ELSE "stopped"]
  /\ keyList' = cacheKeys
  /\ UNCHANGED <<cacheKeys, caches, req, fver, found, fetched, netres,
                 answer, lastStored>>
  /\ UNCHANGED <<apiVars, syncVars, uploadVars>>

\* caches.keys() returned and every caches.delete settled (lines 63-76): the
\* promise given to waitUntil resolves, the worker is activated
ActivateDone(v) ==
  /\ swState[v] = "activating"
  /\ LET deleted == {k \in Range(keyList) : IsOldCache(k, v)} IN
       /\ cacheKeys' = SelectSeq(cacheKeys, LAMBDA k : k \notin deleted)
       /\ caches' = [p \in {q \in DOMAIN caches : q[1] \notin deleted} |->
                       caches[p]]
  /\ keyList' = <<>>
  /\ swState' = [swState EXCEPT ![v] = "activated"]
  /\ UNCHANGED <<fpc, req, fver, found, fetched, netres, answer, lastStored>>
  /\ UNCHANGED <<apiVars, syncVars, uploadVars>>

\* 'fetch' listener up to its first suspension (lines 96-184).  A request that
\* bypasses the strategies is answered by the browser.  Strategy 3 calls
\* fetch(request), the other strategies call caches.match(request).
FetchEvent(f) ==
  /\ fpc[f] = "none"
  /\ \A g \in Fetches : g < f => fpc[g] # "none"
  /\ \E v \in Versions, request \in Requests :
       /\ Intercepts(v)
       /\ req' = [req EXCEPT ![f] = request]
       /\ fver' = [fver EXCEPT ![f] = v]
       /\ IF Bypasses(request.method, request.url)
          THEN /\ fpc' = [fpc EXCEPT ![f] = "done"]
               /\ Respond(f, Answer("passthrough", NoNamespace, NoBody))
               /\ UNCHANGED <<found, fetched>>
          ELSE /\ Respond(f, Pending)
               /\ IF Strategy(request.url) = 3
                  THEN /\ fpc' = [fpc EXCEPT ![f] = "fetch"]
                       /\ fetched' = [fetched EXCEPT ![f] = TRUE]
                       /\ UNCHANGED found
                  ELSE /\ fpc' = [fpc EXCEPT ![f] = "match"]
                       /\ found' = [found EXCEPT ![f] = CachesMatch(request.url)]
                       /\ UNCHANGED fetched
  /\ UNCHANGED <<swState, keyList, cacheKeys, caches, netres, lastStored>>
  /\ UNCHANGED <<apiVars, syncVars, uploadVars>>

\* caches.match returned (lines 110-116, 130-144, 166-180).  Strategy 1
\* answers with the entry, or calls fetch when there is none.  Strategies 2
\* and 4 call fetch and answer with `response || fetchPromise`.
MatchReturned(f) ==
  /\ fpc[f] = "match"
  /\ IF Strategy(req[f].url) = 1 /\ found[f] # NoEntry
     THEN /\ fpc' = [fpc EXCEPT ![f] = "done"]
          /\ Respond(f, Answer("cache", found[f].ns, found[f].body))
          /\ UNCHANGED fetched
     ELSE /\ fpc' = [fpc EXCEPT ![f] = "fetch"]
          /\ fetched' = [fetched EXCEPT ![f] = TRUE]
          /\ IF CachedOrFetch(f)
             THEN Respond(f, Answer("cache", found[f].ns, found[f].body))
             ELSE UNCHANGED answer
  /\ UNCHANGED <<swState, keyList, cacheKeys, caches, req, fver, found, netres,
                 lastStored>>
  /\ UNCHANGED <<apiVars, syncVars, uploadVars>>

\* fetch(request) settled (lines 117-124, 133-142, 150-161, 169-178).
\*  - status 200: caches.open is called for the strategy's cache and the
\*    network response is the value of the fetch promise;
\*  - another status: the network response is the value of the fetch promise;
\*  - rejection: strategy 1 has no catch, the rejection is the outcome;
\*    strategies 2 and 4 log it and the fetch promise resolves with undefined;
\*    strategy 3 calls caches.match(request).
\* The fetch promise is what respondWith receives unless strategy 2 or 4
\* already answered with the cached response.
NetworkResponse(f) ==
  /\ fpc[f] = "fetch"
  /\ LET url == req[f].url
         unanswered == answer[f] = Pending
     IN \E outcome \in {"ok200", "status", "fail"} :
          /\ netres' = [netres EXCEPT ![f] = outcome]
          /\ CASE outcome # "fail" /\ IsCacheable(outcome) ->
                    /\ cacheKeys' = CachesOpen(StrategyCache(url, fver[f]))
                    /\ fpc' = [fpc EXCEPT ![f] = "open"]
                    /\ lastStored' = [lastStored EXCEPT ![url] = f]
                    /\ IF unanswered
                       THEN Respond(f, Answer("network", NoNamespace,
                                              IF outcome = "ok200" THEN f
                                              ELSE NoBody))
                       ELSE UNCHANGED answer
                    /\ UNCHANGED found
               [] outcome # "fail" /\ ~IsCacheable(outcome) ->
                    /\ fpc' = [fpc EXCEPT ![f] = "done"]
                    /\ IF unanswered
                       THEN Respond(f, Answer("network", NoNamespace, NoBody))
                       ELSE UNCHANGED answer
                    /\ UNCHANGED <<cacheKeys, found, lastStored>>
               [] outcome = "fail" /\ Strategy(url) = 3 ->
                    /\ found' = [found EXCEPT ![f] = CachesMatch(url)]
                    /\ fpc' = [fpc EXCEPT ![f] = "fallback"]
                    /\ UNCHANGED <<cacheKeys, answer, lastStored>>
               [] outcome = "fail" /\ Strategy(url) # 3 ->
                    /\ fpc' = [fpc EXCEPT ![f] = "done"]
                    /\ IF unanswered
                       THEN Respond(f, Answer(IF Strategy(url) = 1
                                              THEN "error" ELSE "empty",
                                              NoNamespace, NoBody))
                       ELSE UNCHANGED answer
                    /\ UNCHANGED <<cacheKeys, found, lastStored>>
  /\ UNCHANGED <<swState, keyList, caches, req, fver, fetched>>
  /\ UNCHANGED <<apiVars, syncVars, uploadVars>>

\* the caches.match of strategy 3's catch returned (line 160): its result, an
\* entry or undefined, is the value respondWith receives
FallbackReturned(f) ==
  /\ fpc[f] = "fallback"
  /\ fpc' = [fpc EXCEPT ![f] = "done"]
  /\ IF found[f] # NoEntry
     THEN Respond(f, Answer("cache", found[f].ns, found[f].body))
     ELSE Respond(f, Answer("empty", NoNamespace, NoBody))
  /\ UNCHANGED <<swState, keyList, cacheKeys, caches, req, fver, found,
                 fetched, netres, lastStored>>
  /\ UNCHANGED <<apiVars, syncVars, uploadVars>>

\* caches.open returned: cache.put(request, clone) is called (lines 121, 136,
\* 154, 172); nothing awaits it
OpenReturned(f) ==
  /\ fpc[f] = "open"
  /\ fpc' = [fpc EXCEPT ![f] = "put"]
  /\ UNCHANGED <<swState, keyList, cacheKeys, caches, req, fver, found,
                 fetched, netres, answer, lastStored>>
  /\ UNCHANGED <<apiVars, syncVars, uploadVars>>

\* cache.put committed: the entry of the request is replaced as a whole
PutCommitted(f) ==
  /\ fpc[f] = "put"
  /\ fpc' = [fpc EXCEPT ![f] = "done"]
  /\ caches' = PutAll(StrategyCache(req[f].url, fver[f]), {req[f].url}, f)
  /\ UNCHANGED <<swState, keyList, cacheKeys, req, fver, found, fetched,
                 netres, answer, lastStored>>
  /\ UNCHANGED <<apiVars, syncVars, uploadVars>>

NextCache ==
  \/ \E v \in Versions : InstallEvent(v)
  \/ \E v \in Versions : PrecacheSettled(v)
  \/ \E v \in Versions : ActivateEvent(v)
  \/ \E v \in Versions : ActivateDone(v)
  \/ \E f \in MixedFetches : FetchEvent(f)
  \/ \E f \in Fetches : MatchReturned(f)
  \/ \E f \in Fetches : NetworkResponse(f)
  \/ \E f \in Fetches : FallbackReturned(f)
  \/ \E f \in Fetches : OpenReturned(f)
  \/ \E f \in Fetches : PutCommitted(f)

\* a page shows the photo of a vehicle: an <img> requests it
ImageFetchEvent(f) ==
  /\ FetchEvent(f)
  /\ req'[f] = [method |-> "GET", url |-> "/vehicle/photo.png"]

\* the listeners when the photo is the only URL requested: the catch of
\* strategy 3 is never entered
NextImage ==
  \/ \E v \in Versions : InstallEvent(v)
  \/ \E v \in Versions : PrecacheSettled(v)
  \/ \E v \in Versions : ActivateEvent(v)
  \/ \E v \in Versions : ActivateDone(v)
  \/ \E f \in Fetches : ImageFetchEvent(f)
  \/ \E f \in Fetches : MatchReturned(f)
  \/ \E f \in Fetches : NetworkResponse(f)
  \/ \E f \in Fetches : OpenReturned(f)
  \/ \E f \in Fetches : PutCommitted(f)

(* ================= photo upload (docs/upload-fix.js) ================== *)
(* integrateWithApp replaces app.analyzePhotos; every call runs up to its    *)
(* first await in the task that made it.  showAnalysisResults is a method of *)
(* the app the function is handed: it returns or throws.                     *)

\* the flag is not consulted
DoubleClickGuard_Off == FALSE

\* line 86: if (this.isUploading) return
DoubleClickGuard == isUploading

\* line 112: the finally block
IsUploadingAfterFinally == FALSE

\* lines 111-113: the finally block runs and the call is over
Finally(c) ==
  /\ isUploading' = IsUploadingAfterFinally
  /\ upc' = [upc EXCEPT ![c] = "done"]

\* lines 107-113: the catch block shows the alert and calls
\* showAnalysisResults() for the simulated results, then the finally block
CatchUploadError(c) ==
  /\ \E throws \in BOOLEAN :
       shown' = [shown EXCEPT ![c] = IF throws THEN "threw" ELSE "simulated"]
  /\ Finally(c)

\* app.analyzePhotos() is called (lines 85-102 and 16-52): a call that finds
\* the flag set returns; otherwise the flag is set and analyzeVehiclePhotos
\* runs up to its first await: it throws when there is no photo, else it
\* sends the POST.
AnalyzePhotos(c) ==
  /\ upc[c] = "idle"
  /\ IF DoubleClickGuard
     THEN /\ upc' = [upc EXCEPT ![c] = "skipped"]
          /\ UNCHANGED <<isUploading, posts>>
     ELSE /\ isUploading' = TRUE
          /\ \E hasPhotos \in BOOLEAN :
               IF hasPhotos
               THEN /\ upc' = [upc EXCEPT ![c] = "fetching"]
                    /\ posts' = [posts EXCEPT ![c] = @ + 1]
               ELSE /\ upc' = [upc EXCEPT ![c] = "nophotos"]
                    /\ UNCHANGED posts
  /\ UNCHANGED shown
  /\ UNCHANGED <<apiVars, syncVars, cacheVars>>

\* the await of line 97 delivers the rejection of line 18
NoPhotosThrown(c) ==
  /\ upc[c] = "nophotos"
  /\ CatchUploadError(c)
  /\ UNCHANGED posts
  /\ UNCHANGED <<apiVars, syncVars, cacheVars>>

\* fetch settled (lines 43-64, 71-78): an ok response is parsed; a response
\* that is not ok, and a rejected fetch, is thrown to analyzePhotos
UploadFetchSettled(c) ==
  /\ upc[c] = "fetching"
  /\ \E outcome \in {"ok", "notok", "fail"} :
       IF outcome = "ok"
       THEN /\ upc' = [upc EXCEPT ![c] = "parsing"]
            /\ UNCHANGED <<isUploading, shown>>
       ELSE CatchUploadError(c)
  /\ UNCHANGED posts
  /\ UNCHANGED <<apiVars, syncVars, cacheVars>>

\* response.json() settled (lines 64-70, 97-113): the results are handed to
\* showAnalysisResults; if that throws, or the body could not be parsed, the
\* catch block runs
UploadJsonSettled(c) ==
  /\ upc[c] = "parsing"
  /\ \E parsed \in BOOLEAN, throws \in BOOLEAN :
       IF parsed /\ ~throws
       THEN /\ shown' = [shown EXCEPT ![c] = "results"]
            /\ Finally(c)
       ELSE CatchUploadError(c)
  /\ UNCHANGED posts
  /\ UNCHANGED <<apiVars, syncVars, cacheVars>>

\* A promise a call of analyzePhotos awaits settles.
UploadAwaitReturns(c) ==
  \/ NoPhotosThrown(c)
  \/ UploadFetchSettled(c)
  \/ UploadJsonSettled(c)

NextUpload ==
  \/ \E c \in Calls : AnalyzePhotos(c)
  \/ \E c \in Calls : NoPhotosThrown(c)
  \/ \E c \in Calls : UploadFetchSettled(c)
  \/ \E c \in Calls : UploadJsonSettled(c)

InitUpload ==
  /\ isUploading = FALSE
  /\ upc = [c \in Calls |-> "idle"]
  /\ posts = [c \in Calls |-> 0]
  /\ shown = [c \in Calls |-> "none"]

InitCache ==
  /\ swState = [v \in Versions |-> "parsed"]
  /\ keyList = <<>>
  /\ cacheKeys = <<>>
  /\ caches = [p \in {} |-> NoBody]
  /\ fpc = [f \in Fetches |-> "none"]
  /\ req = [f \in Fetches |-> [method |-> "GET", url |-> "/index.html"]]
  /\ fver = [f \in Fetches |-> 0]
  /\ found = [f \in Fetches |-> NoEntry]
  /\ fetched = [f \in Fetches |-> FALSE]
  /\ netres = [f \in Fetches |-> "none"]
  /\ answer = [f \in Fetches |-> NoAnswer]
  /\ lastStored = [u \in Urls |-> 0]

InitApi ==
  /\ pc = [r \in Reqs |-> "idle"]
  /\ retry = [r \in Reqs |-> FALSE]
  /\ auth = [r \in Reqs |-> NoToken]
  /\ result = [r \in Reqs |-> "none"]
  /\ sends = [r \in Reqs |-> 0]
  /\ status = [r \in Reqs |-> NoResponse]
  /\ local = [r \in Reqs |-> NoToken]
  /\ isRefreshing = FALSE
  /\ refreshSubscribers = <<>>
  /\ storage \in {[access |-> 1, refresh |-> 1, user |-> TRUE],
                  [access |-> NoToken, refresh |-> NoToken, user |-> FALSE]}
  /\ nextTok = 2
  /\ logins = 0
  /\ abandoned = [r \in Reqs |-> FALSE]
  /\ requestResult = [r \in Reqs |-> NotSettled]
  /\ resumed = [r \in Reqs |-> 0]
  /\ refreshCalls = [t \in Tokens |-> 0]
  /\ failedBy = [r \in Reqs |-> 0]
  /\ refreshFailed = FALSE
  /\ lastRefreshed = NoToken

InitSync ==
  /\ store = {}
  /\ nextId = 1
  /\ dpc = [d \in Drains |-> "idle"]
  /\ fetchState = [d \in Drains |-> [u \in Subs |-> "none"]]
  /\ delivered = [u \in Subs |-> 0]
  /\ attempts = [u \in Subs |-> 0]

Init == InitApi /\ InitSync /\ InitCache /\ InitUpload

Next ==
  \/ \E r \in Reqs : Request(r)
  \/ \E r \in Reqs : RequestInterceptorNetInfo(r)
  \/ \E r \in Reqs : RequestInterceptorSend(r)
  \/ \E r \in Reqs : ResponseOk(r)
  \/ \E r \in Reqs : ResponseError(r)
  \/ \E r \in Reqs : Response401(r)
  \/ \E r \in Reqs : RefreshTokenRead(r)
  \/ \E r \in Reqs : NoRefreshToken(r)
  \/ \E r \in Reqs : RefreshRejected(r)
  \/ \E r \in Reqs : AuthenticationRequired(r)
  \/ \E r \in Reqs : RefreshResolved(r)
  \/ \E r \in Reqs : SaveRefreshToken(r)
  \/ \E r \in Reqs : NotifySubscribers(r)
  \/ Login

Spec == Init /\ [][Next]_vars

NextLive ==
  \/ \E r \in LiveReqs : Request(r)
  \/ \E r \in Reqs : RequestInterceptorNetInfo(r)
  \/ \E r \in Reqs : RequestInterceptorSend(r)
  \/ \E r \in Reqs : ResponseOk(r)
  \/ \E r \in Reqs : ResponseError(r)
  \/ \E r \in Reqs : Response401(r)
  \/ \E r \in Reqs : RefreshTokenRead(r)
  \/ \E r \in Reqs : NoRefreshToken(r)
  \/ \E r \in Reqs : RefreshRejected(r)
  \/ \E r \in Reqs : AuthenticationRequired(r)
  \/ \E r \in Reqs : RefreshResolved(r)
  \/ \E r \in Reqs : SaveRefreshToken(r)
  \/ \E r \in Reqs : NotifySubscribers(r)
  \/ Login
  \/ \E r \in Reqs : GetAccessTokenRejected(r)
  \/ \E r \in Reqs : GetRefreshTokenRejected(r)
  \/ \E r \in Reqs : ClearInTryRejected(r)
  \/ \E r \in Reqs : SaveAccessTokenRejected(r)
  \/ \E r \in Reqs : SaveRefreshTokenRejected(r)
  \/ \E r \in Reqs : StorageErrorCaught(r)
  \/ \E r \in Reqs : CatchClearRejected(r)
  \/ \E r \in Reqs : StorageErrorThrown(r)
  \/ \E r \in Reqs : Abandon(r)

\* An operation the refresh procedure awaits (getItem, the refresh call,
\* setItem, clearAuthData) returns, with either outcome.
RefreshAwaitReturns(r) ==
  \/ RefreshTokenRead(r)
  \/ GetRefreshTokenRejected(r)
  \/ ClearInTryRejected(r)
  \/ NoRefreshToken(r)
  \/ RefreshRejected(r)
  \/ RefreshResolved(r)
  \/ SaveAccessTokenRejected(r)
  \/ SaveRefreshToken(r)
  \/ SaveRefreshTokenRejected(r)
  \/ NotifySubscribers(r)
  \/ StorageErrorCaught(r)
  \/ CatchClearRejected(r)

\* Storage failures and abandonment included; MaxLiveReq requests are issued;
\* every operation awaited by the refresh procedure eventually returns.
SpecLive ==
  /\ Init
  /\ [][NextLive]_vars
  /\ \A r \in Reqs : WF_vars(RefreshAwaitReturns(r))

SpecSync == Init /\ [][NextSync]_vars

\* For the parts in which the ApiClient does not move (the listeners of sw.js,
\* the photo upload): one of its initial states is enough.
InitRouter == Init /\ isAuthenticated

SpecCache == InitRouter /\ [][NextCache]_vars

\* MaxFetch requests for one image
SpecImage == InitRouter /\ [][NextImage]_vars

\* The calls of app.analyzePhotos; every promise a call awaits settles.
SpecUpload ==
  /\ InitRouter
  /\ [][NextUpload]_vars
  /\ \A c \in Calls : WF_vars(UploadAwaitReturns(c))

TypeOK ==
  /\ pc \in [Reqs -> {"idle", "netinfo", "gettoken", "inflight", "waiting",
                      "rt_get", "rt_clear", "refreshing", "save_access",
                      "save_refresh", "fail_clear", "storage_err",
                      "save_err", "clear_err", "done"}]
  /\ auth \in [Reqs -> Tokens]
  /\ sends \in [Reqs -> 0..MaxSends]
  /\ storage.access \in Tokens /\ storage.refresh \in Tokens
(* ============================== claims ================================ *)

\* A 401 reached the response interceptor's error handler for request r.
Got401(r) ==
  /\ pc[r] = "inflight"
  /\ pc'[r] # "inflight"
  /\ status'[r] = StatusUnauthorized

\* Some request enters the refresh procedure in this step.
StartsRefresh == \E q \in Reqs : pc[q] = "inflight" /\ pc'[q] = "rt_get"

\* Request r is appended to the waiter list and suspends.
RegistersWaiter(r) ==
  /\ pc'[r] = "waiting"
  /\ refreshSubscribers' = Append(refreshSubscribers, r)

\* Number of refresh calls (axios.post to REFRESH_TOKEN) outstanding.
RefreshesOutstanding == Cardinality({r \in Reqs : pc[r] = "refreshing"})

\* C1 (as stated): never two refresh calls outstanding, and every 401 that
\* arrives while the pipeline is Refreshing starts no refresh and registers
\* its request as a waiter.
C1_SingleFlightEvery401Waits ==
  /\ [](RefreshesOutstanding <= 1)
  /\ [][\A r \in Reqs : (Got401(r) /\ isRefreshing) =>
          (~StartsRefresh /\ RegistersWaiter(r))]_vars

\* C1 (amended): never two refresh calls outstanding; a 401 that arrives while
\* the pipeline is Refreshing starts no refresh; it registers its request as a
\* waiter unless the request is marked _retry, in which case the request fails
\* with the 401 ApiError and the waiter list is left alone.
C1_SingleFlight ==
  /\ [](RefreshesOutstanding <= 1)
  /\ [][\A r \in Reqs : (Got401(r) /\ isRefreshing) =>
          /\ ~StartsRefresh
          /\ isRefreshing'
          /\ IF retry[r]
             THEN /\ pc'[r] = "done" /\ result'[r] = "api_error_401"
                  /\ refreshSubscribers' = refreshSubscribers
             ELSE RegistersWaiter(r)]_vars

\* C1 witness: a refresh call is outstanding and another request, whose 401
\* arrived meanwhile, is registered as a waiter.
C1_Witness ==
  \E r, w \in Reqs :
    /\ pc[r] = "refreshing"
    /\ pc[w] = "waiting" /\ w \in Range(refreshSubscribers)
    /\ status[w] = StatusUnauthorized

\* C2 (as stated): as long as no refresh has failed and no new login took
\* place, the requests that were sent with one access token and got a 401
\* cause at most one refresh call between them, whenever their 401s arrive.
C2_OneRefreshPerExpiry ==
  (logins = 0 /\ ~refreshFailed) =>
     \A t \in Tokens \ {NoToken} : refreshCalls[t] <= 1

\* C3 (as stated): once the request whose refresh failed has completed with the
\* authentication-required failure, every waiter of that refresh has completed
\* with the same failure, without having been re-sent.
C3_WaitersFailOnRefreshFailure ==
  \A o, w \in Reqs :
    (failedBy[w] = o /\ pc[o] = "done" /\ result[o] = "auth_required") =>
       (pc[w] = "done" /\ result[w] = "auth_required")

\* C4 (as stated): a request is dispatched at most twice (once originally and
\* once after a refresh), and a request that has been re-sent never waits for
\* or starts a refresh again.
C4_RetriedAtMostOnce ==
  \A r \in Reqs :
    /\ sends[r] <= 2
    /\ sends[r] = 2 => pc[r] \notin {"waiting", "rt_get", "rt_clear", "refreshing",
                                      "save_access", "save_refresh", "fail_clear"}

\* C5: the step that completes a successful refresh resumes every registered
\* waiter exactly once, its request re-issued with the new access token in the
\* Authorization header, empties the waiter list and leaves Refreshing.
C5_RefreshSuccessResumesWaiters ==
  [][\A r \in Reqs : (pc[r] = "save_refresh" /\ pc'[r] # "save_refresh") =>
       /\ \A w \in Range(refreshSubscribers) :
            /\ pc[w] = "waiting" /\ pc'[w] = "netinfo"
            /\ auth'[w] = local[r]
            /\ resumed'[w] = resumed[w] + 1
       /\ \A q \in Reqs \ Range(refreshSubscribers) : resumed'[q] = resumed[q]
       /\ refreshSubscribers' = <<>>
       /\ ~isRefreshing']_vars

\* C5 witness: a waiter has been resumed and re-issued with a refreshed token,
\* the list is empty and the pipeline is Idle.
C5_Witness ==
  \E w \in Reqs :
    /\ resumed[w] = 1 /\ pc[w] = "netinfo" /\ auth[w] = storage.access
    /\ auth[w] # NoToken
    /\ refreshSubscribers = <<>> /\ ~isRefreshing

\* C6 (as stated): if the delivery of S1 failed in a drain, the later-enqueued
\* S2 was not sent in that drain, and S2 is never delivered before S1.
C6_StopOnFirstFailure ==
  \A s1, s2 \in Subs : s1 < s2 =>
    /\ delivered[s2] > 0 => delivered[s1] > 0
    /\ \A d \in Drains :
         fetchState[d][s1] \in {"notok", "netfail"} => fetchState[d][s2] = "none"

\* C7 (as stated): a drain has at most one delivery request outstanding.
C7_SequentialDelivery ==
  \A d \in Drains : Cardinality({u \in Subs : fetchState[d][u] = "inflight"}) <= 1

\* C8 (as stated): no submission has two delivery requests outstanding.
C8_SingleFlightDrain ==
  \A u \in Subs : Cardinality({d \in Drains : fetchState[d][u] = "inflight"}) <= 1

\* C9: a submission leaves the store only in a step in which its own delivery
\* request returned a successful response; a step in which a delivery fails
\* for lack of network, or any delivery of another submission settles without
\* success, leaves the store as it is.
C9_RemovedOnlyAfterOwnSuccess ==
  [][/\ \A u \in store : u \notin store' =>
          \E d \in Drains : fetchState[d][u] = "inflight" /\ fetchState'[d][u] = "ok"
     /\ \A d \in Drains, u \in Subs :
          (fetchState[d][u] = "inflight" /\ fetchState'[d][u] \in {"netfail", "notok"})
             => store' = store]_vars

\* C9 witness: a delivery failed for lack of network while another submission
\* was pending too, and both are still in the store.
C9_Witness ==
  \E d \in Drains, u, v \in Subs :
    /\ u # v
    /\ fetchState[d][u] = "netfail"
    /\ {u, v} \subseteq store

\* C10: after a failed refresh, and until saveAuthData is called again, none
\* of the three keys is stored and isAuthenticated() is false.
C10_FailedRefreshClearsStorage ==
  refreshFailed =>
    /\ storage.access = NoToken
    /\ storage.refresh = NoToken
    /\ ~storage.user
    /\ ~isAuthenticated

\* C10 witness: a refresh call was issued with a stored refresh token, it was
\* rejected, the request ended with 'Authentication required'.
C10_Witness ==
  /\ refreshFailed
  /\ \E r \in Reqs : pc[r] = "done" /\ result[r] = "auth_required"
  /\ \E t \in Tokens : refreshCalls[t] > 0
  /\ storage.access = NoToken

\* C11: in every reachable state the stored access token and the stored
\* refresh token belong to the same pair (both of the old pair, both of the
\* new pair, or both absent), so no reader sees a new access token next to an
\* old refresh token.
C11_CredentialsReplacedAtomically == storage.access = storage.refresh

\* C12: whenever the pipeline is Refreshing it eventually is Idle again, given
\* that every operation the refresh procedure awaits eventually returns; on
\* the success path, on a rejected refresh, with no refresh token, on a storage
\* error, and when the request that refreshes was abandoned by its caller.
C12_RefreshingReturnsToIdle == isRefreshing ~> ~isRefreshing

\* C12 witness: a request started a refresh, was abandoned by its caller, a
\* storage operation of the refresh procedure rejected, and the pipeline is
\* Idle again.
C12_Witness ==
  \E r \in Reqs :
    /\ retry[r]
    /\ abandoned[r]
    /\ pc[r] = "done"
    /\ result[r] = "storage_error"
    /\ ~isRefreshing

\* Fetch event f was handed to strategy n and its handler is past the
\* suspension of its first call.
Handled(f, n) ==
  /\ fpc[f] # "none"
  /\ ~Bypasses(req[f].method, req[f].url)
  /\ Strategy(req[f].url) = n

\* The answer that consists of the cache entry caches.match delivered to f.
FromCache(f) == Answer("cache", found[f].ns, found[f].body)

\* C13: a stale-while-revalidate request that found a cache entry on arrival
\* is answered with exactly that entry, whatever the network fetch does and
\* for as long as it lasts, and the handler calls fetch all the same.
C13_StaleWhileRevalidate ==
  \A f \in Fetches :
    (Handled(f, 4) /\ fpc[f] # "match") =>
      /\ fetched[f]
      /\ found[f] # NoEntry => answer[f] = FromCache(f)

\* C13 witness: a stale-while-revalidate request was answered with the entry
\* an earlier fetch had stored, and its own network fetch failed afterwards.
C13_Witness ==
  \E f \in Fetches :
    /\ Handled(f, 4)
    /\ found[f].body \in Fetches
    /\ netres[f] = "fail"
    /\ answer[f] = FromCache(f)

\* Fetch event f is dispatched in this step.
Arrives(f) == fpc[f] = "none" /\ fpc'[f] # "none"

\* C14: a cache-first request whose key is stored in the static cache of the
\* version that handles it finds an entry on arrival; a cache-first request
\* that found an entry is answered with it and calls fetch at no time.
C14_CacheFirstNoRefetch ==
  /\ [][\A f \in Fetches :
          (/\ Arrives(f)
           /\ ~Bypasses(req'[f].method, req'[f].url)
           /\ Strategy(req'[f].url) = 1
           /\ Stored(STATIC_CACHE(fver'[f]), req'[f].url) # NoBody)
            => found'[f] # NoEntry]_vars
  /\ [](\A f \in Fetches :
          (Handled(f, 1) /\ found[f] # NoEntry) =>
            /\ ~fetched[f]
            /\ fpc[f] # "match" => answer[f] = FromCache(f))

\* C14 witness: a cache-first request was answered, without a network fetch,
\* with the response an earlier request had fetched and stored in the static
\* cache of the running version.
C14_Witness ==
  \E f \in Fetches :
    /\ Handled(f, 1)
    /\ answer[f] = Answer("cache", STATIC_CACHE(fver[f]), found[f].body)
    /\ found[f].body \in Fetches
    /\ ~fetched[f]

\* The response fetch event f got from the network is stored under its key, or
\* its put is under way, or the cache it went to was since superseded.
StoredUnderKey(f) ==
  \/ fpc[f] \in {"open", "put"}
  \/ swState[fver[f]] # "activated"
  \/ Stored(StrategyCache(req[f].url, fver[f]), req[f].url) # NoBody

\* C15: a network-first request calls fetch first; a status-200 network
\* response is the answer and is stored under the request key; when the
\* network fails the answer is the cached entry if there is one, and the
\* failure itself if there is none.
C15_NetworkFirst ==
  \A f \in Fetches :
    Handled(f, 3) =>
      /\ fetched[f]
      /\ netres[f] = "none" => found[f] = NoEntry
      /\ netres[f] = "ok200" =>
           answer[f] = Answer("network", NoNamespace, f) /\ StoredUnderKey(f)
      /\ (netres[f] = "fail" /\ fpc[f] = "done" /\ found[f] # NoEntry) =>
           answer[f] = FromCache(f)
      /\ (netres[f] = "fail" /\ fpc[f] = "done" /\ found[f] = NoEntry) =>
           answer[f].kind = "error"

\* The network fetch of f failed while no cached entry had been found for it.
FailedUncached(f) ==
  /\ netres[f] = "fail"
  /\ fpc[f] = "done"
  /\ found[f] = NoEntry

\* C16: the answer of a cache-first or stale-while-revalidate request is never
\* the network error; the answer is the network error exactly when the request
\* is network-first or cache-first-with-background-refresh, its fetch failed
\* and no entry was cached, and the error is then the one fetch rejected with.
C16_NetworkErrorSurfacing ==
  \A f \in Fetches :
    /\ (Handled(f, 1) \/ Handled(f, 4)) => answer[f].kind # "error"
    /\ ((Handled(f, 2) \/ Handled(f, 3)) /\ FailedUncached(f)) =>
         answer[f].kind = "error"
    /\ answer[f].kind = "error" => FailedUncached(f)

\* C17: a request whose method is not GET is left to the browser: it is not
\* answered from a cache, its handler calls neither caches.match nor fetch nor
\* cache.put; every cache entry that came from a fetch event was stored for a
\* GET request.
C17_NonGetBypassesRouter ==
  /\ \A f \in Fetches :
       (fpc[f] # "none" /\ req[f].method # "GET") =>
         /\ answer[f].kind = "passthrough"
         /\ fpc[f] = "done"
         /\ found[f] = NoEntry
         /\ ~fetched[f]
  /\ \A p \in DOMAIN caches :
       caches[p] \in Fetches =>
         /\ req[caches[p]].method = "GET"
         /\ req[caches[p]].url = p[2]

\* C17 witness: POST /index.html was dispatched to the worker while
\* /index.html was stored in the static cache, and the worker left it alone.
C17_Witness ==
  \E f \in Fetches :
    /\ req[f] = [method |-> "POST", url |-> "/index.html"]
    /\ fpc[f] = "done"
    /\ answer[f].kind = "passthrough"
    /\ Stored(STATIC_CACHE(fver[f]), "/index.html") # NoBody

\* The caches of version v: one per asset class.
CurrentCaches(v) == {STATIC_CACHE(v), DYNAMIC_CACHE(v), IMAGE_CACHE(v), API_CACHE(v)}

\* Version v is activated and no later version has begun to install.
IsCurrent(v) ==
  /\ swState[v] = "activated"
  /\ \A w \in Versions : w > v => swState[w] = "parsed"

\* C18: when the activation of version v completes, every cache named for
\* another version is gone and the caches of version v exist with the entries
\* they had; from then on, until a later version begins to install, the only
\* caches that exist are those of version v, at most one per asset class.
C18_ActivationLeavesCurrentCaches ==
  /\ [][\A v \in Versions :
          (swState[v] = "activating" /\ swState'[v] = "activated") =>
            /\ Range(cacheKeys') \subseteq CurrentCaches(v)
            /\ \A ns \in CurrentCaches(v) :
                 ns \in Range(cacheKeys) => ns \in Range(cacheKeys')
            /\ \A p \in DOMAIN caches :
                 p[1] \in CurrentCaches(v) =>
                   p \in DOMAIN caches' /\ caches'[p] = caches[p]]_vars
  /\ [](\A v \in Versions :
          IsCurrent(v) =>
            /\ Range(cacheKeys) \subseteq CurrentCaches(v)
            /\ \A p \in DOMAIN caches : p[1] \in Range(cacheKeys)
            /\ \A i, j \in DOMAIN cacheKeys :
                 cacheKeys[i][1] = cacheKeys[j][1] => i = j)

\* C18 witness: version 1 had stored a network response in one of its caches;
\* version 2 is activated, only its static cache exists, and the precached
\* /index.html of version 2 is found by caches.match.
C18_Witness ==
  /\ swState[2] = "activated"
  /\ \E f \in Fetches : fver[f] = 1 /\ netres[f] = "ok200" /\ fpc[f] = "done"
  /\ cacheKeys = <<STATIC_CACHE(2)>>
  /\ CachesMatch("/index.html") = [ns |-> STATIC_CACHE(2), body |-> Pre(2)]

\* C19: fetch events are dispatched to version v only after its activation
\* deleted the caches of older versions: while such an event is being handled
\* no cache of an older version exists, and what caches.match delivers to the
\* handler, hence every answer taken from a cache, is no entry of a cache of
\* an older version.
C19_NoAnswerFromOldVersion ==
  \A f \in Fetches :
    fpc[f] # "none" =>
      /\ fpc[f] \notin {"done", "stopped"} =>
           \A k \in Range(cacheKeys) : k[2] >= fver[f]
      /\ found[f] # NoEntry => found[f].ns[2] >= fver[f]
      /\ answer[f].kind = "cache" => answer[f].ns[2] >= fver[f]

\* C19 witness: version 1 had stored a network response; version 2 replaced
\* it and answered a request from its own static cache.
C19_Witness ==
  /\ \E g \in Fetches : fver[g] = 1 /\ netres[g] = "ok200" /\ fpc[g] = "done"
  /\ \E f \in Fetches :
       /\ fver[f] = 2
       /\ answer[f] = Answer("cache", STATIC_CACHE(2), Pre(2))

\* Every fetch event for url has settled: no handler is still to receive a
\* network response or to commit a put for it.
WritesSettled(url) ==
  \A f \in Fetches : req[f].url = url => fpc[f] \in {"none", "done"}

\* C20: once the fetches for a request key have completed and their puts have
\* settled, the cache entry of the key is the response of the fetch that
\* completed last (while the version that stored it is the activated one).
C20_LastCompletedFetchWins ==
  \A url \in Urls :
    LET last == lastStored[url] IN
      (last # 0 /\ WritesSettled(url) /\ swState[fver[last]] = "activated") =>
        Stored(StrategyCache(url, fver[last]), url) = last

\* The cache a strategy stores network responses into.
CacheOf(n, v) ==
  CASE n = 1 -> STATIC_CACHE(v)
    [] n = 2 -> IMAGE_CACHE(v)
    [] n = 3 -> API_CACHE(v)
    [] OTHER -> DYNAMIC_CACHE(v)

\* What the handler of fetch event f does in this step is what strategy n
\* prescribes.  On arrival: network-first calls fetch, the other strategies
\* look the request up.  When the lookup returns: cache-first answers with the
\* entry and calls no fetch, and calls fetch only when there is no entry; the
\* two refreshing strategies call fetch in either case.  When a put commits:
\* the entry written is the one of the request in the cache of strategy n and
\* no other entry changes.
Follows(f, n) ==
  /\ Arrives(f) =>
       IF n = 3 THEN fetched'[f] /\ fpc'[f] = "fetch"
       ELSE ~fetched'[f] /\ fpc'[f] = "match"
  /\ (fpc[f] = "match" /\ fpc'[f] \in {"fetch", "done"}) =>
       IF n = 1 /\ found[f] # NoEntry
       THEN ~fetched'[f] /\ fpc'[f] = "done" /\ answer'[f] = FromCache(f)
       ELSE fetched'[f] /\ fpc'[f] = "fetch"
  /\ (fpc[f] = "put" /\ fpc'[f] = "done") =>
       /\ <<CacheOf(n, fver[f]), req[f].url>> \in DOMAIN caches'
       /\ caches'[<<CacheOf(n, fver[f]), req[f].url>>] = f
       /\ \A p \in DOMAIN caches' :
            p # <<CacheOf(n, fver[f]), req[f].url>> =>
              p \in DOMAIN caches /\ caches'[p] = caches[p]

\* The request of fetch event f before and after the step that dispatches it.
Intercepted(f) ==
  /\ fpc'[f] # "none"
  /\ ~Bypasses(req'[f].method, req'[f].url)

\* First match over the classes as the claim lists them.
FirstMatchManifest(url) ==
  IF url \in STATIC_ASSETS THEN 1
  ELSE IF isImageRequest(url) THEN 2
  ELSE IF isApiRequest(url) THEN 3
  ELSE 4

\* First match with the first class widened to the paths under /icons/.
FirstMatchManifestOrIcons(url) ==
  IF url \in STATIC_ASSETS \/ StartsWithIcons(url) THEN 1
  ELSE IF isImageRequest(url) THEN 2
  ELSE IF isApiRequest(url) THEN 3
  ELSE 4

\* C21 (as stated): every intercepted GET request is handled, in each step of
\* its handler, by the strategy of the first class it matches in the order
\* precache-manifest URL, image, API URL, anything else.
C21_FirstMatchManifestOnly ==
  [][\A f \in Fetches :
       Intercepted(f) => Follows(f, FirstMatchManifest(req'[f].url))]_vars

\* C21 (amended): the same with the first class being the precache-manifest
\* URLs and every path that begins with /icons/.
C21_FirstMatchWins ==
  [][\A f \in Fetches :
       Intercepted(f) => Follows(f, FirstMatchManifestOrIcons(req'[f].url))]_vars

\* C21 witness: an image whose URL contains '/vehicle' was stored in the image
\* cache, and an icon that is not in the manifest was stored in the static
\* cache.
C21_Witness ==
  \E f, g \in Fetches :
    /\ req[f].url = "/vehicle/photo.png"
    /\ Stored(IMAGE_CACHE(fver[f]), req[f].url) = f
    /\ Stored(API_CACHE(fver[f]), req[f].url) = NoBody
    /\ req[g].url = "/icons/badge-72x72.png"
    /\ Stored(STATIC_CACHE(fver[g]), req[g].url) = g

Settles(d, u) == fetchState[d][u] = "inflight" /\ fetchState'[d][u] # "inflight"

\* The server answered a POST of upload u with a non-success status.
Rejected(u) == \E d \in Drains : fetchState[d][u] = "notok"

\* C23 (as stated): a submission the server rejected is no longer in the
\* store, and no sync event posts it again.
C23_RejectedSubmissionRemoved ==
  /\ [](\A u \in Subs : Rejected(u) => u \notin store)
  /\ [][\A u \in Subs, d \in Drains :
          (Rejected(u) /\ fetchState[d][u] = "none") =>
             fetchState'[d][u] = "none"]_vars

\* C24 (as stated): enqueue puts the submission into the store under a new id
\* (the store grows by one); a submission whose POST the server accepted is
\* no longer in the store.
C24_EnqueuedThenDrained ==
  /\ [][nextId' # nextId =>
          /\ nextId \notin store
          /\ store' = store \cup {nextId}
          /\ Cardinality(store') = Cardinality(store) + 1]_vars
  /\ [](\A u \in Subs : delivered[u] > 0 => u \notin store)

\* C26 (as stated): a POST that settles without success increments the
\* attempts of its submission by one and leaves the submission in the store;
\* a POST the server accepted leaves attempts as it is.
C26_AttemptsCountFailures ==
  [][\A d \in Drains, u \in Subs :
       Settles(d, u) =>
         IF fetchState'[d][u] \in {"notok", "netfail"}
         THEN attempts'[u] = attempts[u] + 1 /\ u \in store'
         ELSE attempts'[u] = attempts[u]]_vars

\* Request r is the only request issued so far.
SingleRequest(r) == \A q \in Reqs \ {r} : pc[q] = "idle"

\* The access tokens for whose 401 a refresh call was issued.
RefreshedTokens == {t \in Tokens : refreshCalls[t] > 0}

\* A refresh call was issued for the 401 of request r, it returned a new pair,
\* the pair was saved and r was handed to this.instance again.
ResentAfterRefresh(r) ==
  /\ RefreshedTokens # {}
  /\ pc[r] \in {"netinfo", "gettoken", "inflight", "done"}
  /\ result[r] # "auth_required"

\* C25: while a single request is under way at most one refresh call is
\* issued; once the refresh succeeded the request carries the new access
\* token, the stored one, for which no refresh was needed; it is dispatched a
\* second time and no third time; and when the server answers the re-send
\* with success the caller receives that response.
C25_SingleExpiredRequest ==
  \A r \in Reqs :
    SingleRequest(r) =>
      /\ \A t \in Tokens : refreshCalls[t] <= 1
      /\ Cardinality(RefreshedTokens) <= 1
      /\ ResentAfterRefresh(r) =>
           /\ auth[r] # NoToken
           /\ auth[r] = storage.access
           /\ auth[r] \notin RefreshedTokens
           /\ sends[r] <= 2
           /\ pc[r] = "inflight" => sends[r] = 2
           /\ (pc[r] = "done" /\ status[r] = StatusOk) =>
                (sends[r] = 2 /\ result[r] = "ok")

\* C25 witness: the single request got a 401 for the stored token 1, one
\* refresh call was issued, the request was re-sent with the new token and
\* the caller received the successful response.
C25_Witness ==
  \E r \in Reqs :
    /\ SingleRequest(r)
    /\ RefreshedTokens = {1}
    /\ pc[r] = "done"
    /\ result[r] = "ok"
    /\ sends[r] = 2
    /\ auth[r] = storage.access
    /\ auth[r] # 1

\* C27 (as stated), for the token store of the pipeline: when the read of the
\* access token fails the request is dispatched all the same, and when a
\* write of the refreshed tokens fails the handler goes on as after a write
\* that succeeded: it leaves Refreshing and re-sends the request.
C27_StorageFailureAbsorbed ==
  [][\A r \in Reqs :
       /\ (pc[r] = "gettoken" /\ pc'[r] # "gettoken") => pc'[r] = "inflight"
       /\ (pc[r] = "save_err" /\ pc'[r] # "save_err") =>
            (pc'[r] = "netinfo" /\ ~isRefreshing')]_vars

\* C28: whenever isRefreshing is false the waiter list is empty, and every
\* request on the list is suspended as a waiter.
C28_WaitersOnlyWhileRefreshing ==
  /\ ~isRefreshing => refreshSubscribers = <<>>
  /\ \A w \in Range(refreshSubscribers) : pc[w] = "waiting"

\* C28 witness: a request registered as a waiter during a refresh that then
\* failed; the pipeline is Idle and the list is empty.
C28_Witness ==
  \E w \in Reqs :
    /\ failedBy[w] # 0
    /\ pc[w] = "waiting"
    /\ ~isRefreshing
    /\ refreshSubscribers = <<>>

\* A refresh is between its two setItem calls.
SavingTokens == \E r \in Reqs : pc[r] = "save_access"

\* C29: when a refresh call has returned a pair, both of its tokens have been
\* written and no refresh failed since, the stored pair is that pair, also
\* while the clearAuthData of an earlier failed refresh is still awaited and
\* after it returned.
C29_LateClearKeepsNewTokens ==
  (lastRefreshed # NoToken /\ ~SavingTokens) =>
     /\ storage.access = lastRefreshed
     /\ storage.refresh = lastRefreshed

\* C29 witness: the clearAuthData of a failed refresh is still awaited by its
\* request while a later refresh has saved its pair.
C29_Witness ==
  \E a, b \in Reqs :
    /\ pc[a] = "fail_clear"
    /\ pc[b] \in {"save_refresh", "netinfo"}
    /\ retry[b]
    /\ lastRefreshed # NoToken
    /\ storage.access = lastRefreshed
    /\ storage.refresh = lastRefreshed

\* The network answers the fetch of event f with a status other than 200.
GetsNon200(f) == fpc[f] = "fetch" /\ netres'[f] = "status"

\* Every cache entry that came from a fetch event is a status-200 response;
\* the step in which a non-200 response arrives changes no cache, creates
\* none, and ends the handler, so that no put follows.
OnlyStatus200Stored ==
  /\ [](\A p \in DOMAIN caches :
          caches[p] \in Fetches => netres[caches[p]] = "ok200")
  /\ [][\A f \in Fetches :
          GetsNon200(f) =>
            /\ caches' = caches
            /\ cacheKeys' = cacheKeys
            /\ fpc'[f] = "done"]_vars

\* C30 (as stated): only status-200 responses are written to a cache; a
\* non-200 response is the answer the caller receives and leaves every cache
\* entry as it is.
C30_Non200AlwaysReturned ==
  /\ OnlyStatus200Stored
  /\ [][\A f \in Fetches :
          GetsNon200(f) =>
            answer'[f] = Answer("network", NoNamespace, NoBody)]_vars

\* C30 (amended): the same, the non-200 response being the answer unless the
\* request was already answered with the cached entry, which then stays the
\* answer.
C30_OnlyStatus200Cached ==
  /\ OnlyStatus200Stored
  /\ [][\A f \in Fetches :
          GetsNon200(f) =>
            answer'[f] = IF answer[f] = Pending
                         THEN Answer("network", NoNamespace, NoBody)
                         ELSE FromCache(f)]_vars

\* C30 witness: a network-first request got a non-200 response, which is its
\* answer, while the entry an earlier request had stored for the key is still
\* the stored one.
C30_Witness ==
  \E f, g \in Fetches :
    /\ Handled(f, 3)
    /\ netres[f] = "status"
    /\ answer[f] = Answer("network", NoNamespace, NoBody)
    /\ netres[g] = "ok200"
    /\ req[g].url = req[f].url
    /\ Stored(API_CACHE(fver[f]), req[f].url) = g

\* C31: when getItem(REFRESH_TOKEN) delivers nothing to the request that
\* started a refresh, no refresh call is issued and clearAuthData is called;
\* the catch block then leaves the waiter list empty, the pipeline Idle and
\* none of the three keys stored; the request ends with 'Authentication
\* required'; and the request is not dispatched again on the way.
C31_NoRefreshTokenNoRefreshCall ==
  [][\A r \in Reqs :
       /\ (pc[r] = "rt_get" /\ local[r] = NoToken /\ pc'[r] # "rt_get") =>
            /\ pc'[r] = "rt_clear"
            /\ refreshCalls' = refreshCalls
            /\ storage' = ClearAuthData
            /\ sends' = sends
       /\ (pc[r] = "rt_clear" /\ pc'[r] # "rt_clear") =>
            /\ pc'[r] = "fail_clear"
            /\ refreshCalls' = refreshCalls
            /\ storage' = ClearAuthData
            /\ ~isRefreshing'
            /\ refreshSubscribers' = <<>>
            /\ sends' = sends
       /\ (pc[r] = "fail_clear" /\ pc'[r] # "fail_clear") =>
            /\ pc'[r] = "done"
            /\ result'[r] = "auth_required"
            /\ refreshCalls' = refreshCalls
            /\ sends' = sends]_vars

\* C31 witness: a request that was dispatched once got a 401 with nothing
\* stored, ended with 'Authentication required', no refresh call was ever
\* issued, the storage is empty and the pipeline is Idle.
C31_Witness ==
  \E r \in Reqs :
    /\ pc[r] = "done"
    /\ result[r] = "auth_required"
    /\ retry[r]
    /\ sends[r] = 1
    /\ \A t \in Tokens : refreshCalls[t] = 0
    /\ storage = ClearAuthData
    /\ ~isRefreshing
    /\ refreshSubscribers = <<>>

\* Nothing of the refresh pipeline changes in this step: no request enters the
\* refresh procedure or the waiter list, no refresh call is issued, and the
\* stored tokens, isRefreshing and the waiter list are what they were.
PipelineUntouched ==
  /\ ~StartsRefresh
  /\ refreshCalls' = refreshCalls
  /\ storage' = storage
  /\ isRefreshing' = isRefreshing
  /\ refreshSubscribers' = refreshSubscribers

\* NetInfo reports no connection to the request interceptor of request r.
RejectedOffline(r) == pc[r] = "netinfo" /\ pc'[r] = "done"

\* The error handler receives, for the dispatched request r, anything but a
\* 401 on a request not marked _retry.
OtherResponseError(r) ==
  /\ pc[r] = "inflight"
  /\ pc'[r] # "inflight"
  /\ status'[r] # StatusOk
  /\ status'[r] = StatusUnauthorized => retry[r]

\* C32: a request that finds the device not connected is not dispatched, its
\* caller is thrown an object of status 500, and the refresh pipeline is left
\* untouched; a response error other than a first 401 is thrown at the caller
\* and leaves the pipeline untouched as well.
C32_OfflineRejectedBeforeNetwork ==
  [][\A r \in Reqs :
       /\ RejectedOffline(r) =>
            /\ sends' = sends
            /\ requestResult'[r] = [settled |-> "thrown", status |-> Status500]
            /\ PipelineUntouched
       /\ OtherResponseError(r) =>
            /\ pc'[r] = "done"
            /\ requestResult'[r].settled = "thrown"
            /\ PipelineUntouched]_vars

\* C32 witness: a request was rejected for lack of connectivity before its
\* first dispatch, its caller holds the status-500 object, while the refresh
\* call of another request is outstanding and credentials are stored.
C32_Witness ==
  \E r, q \in Reqs :
    /\ pc[r] = "done"
    /\ result[r] = "network_error"
    /\ sends[r] = 0
    /\ requestResult[r] = [settled |-> "thrown", status |-> Status500]
    /\ pc[q] = "refreshing"
    /\ isRefreshing
    /\ isAuthenticated

\* The calls of analyzePhotos whose POST was sent and whose upload has not
\* ended (the response, or its body, is still awaited).
UploadsInFlight == {c \in Calls : upc[c] \in {"fetching", "parsing"}}

\* The calls of analyzePhotos that are between setting the flag and the
\* finally block.
CallsInProgress == {c \in Calls : upc[c] \in {"nophotos", "fetching", "parsing"}}

\* C33: at most one upload is in flight; a call of analyzePhotos made while
\* isUploading is true returns without sending anything and without touching
\* the flag; the flag is set exactly while a call is between its guard and
\* its finally block, so it is false once an upload has ended, with results,
\* with the simulated results or with an exception; and, every awaited
\* promise settling, a set flag is always reset, so no later call is turned
\* away forever.
C33_SingleUploadInFlight ==
  /\ [](Cardinality(UploadsInFlight) <= 1)
  /\ [](isUploading <=> CallsInProgress # {})
  /\ [][\A c \in Calls :
          /\ (upc[c] = "idle" /\ upc'[c] # "idle" /\ isUploading) =>
               /\ upc'[c] = "skipped"
               /\ posts' = posts
               /\ isUploading' = isUploading
          /\ (c \in UploadsInFlight /\ upc'[c] = "done") => ~isUploading']_vars
  /\ (isUploading ~> ~isUploading)

\* C33 witness: an upload that was sent has failed and the simulated results
\* were shown, a call made while it was in flight was turned away, and a call
\* made after its end has its own upload in flight.
C33_Witness ==
  \E a, b, c \in Calls :
    /\ upc[a] = "done" /\ posts[a] = 1 /\ shown[a] = "simulated"
    /\ upc[b] = "skipped" /\ posts[b] = 0
    /\ upc[c] = "fetching" /\ posts[c] = 1
    /\ isUploading
====
